---------------------------- MODULE Spec2Model ----------------------------
(***************************************************************************)
(* State-machine model of two w3af crawl plugins and the knowledge base    *)
(* they write to:                                                          *)
(*   plugins/crawl/ria_enumerator.py  (crawl, _url_generator,              *)
(*       _send_and_check, _analyze_gears_manifest,                         *)
(*       _analyze_crossdomain_clientaccesspolicy)                          *)
(*   plugins/crawl/urllist_txt.py     (crawl, _is_urllist_txt,             *)
(*       _extract_urls_generator)                                          *)
(*   core/ui/console/kbMenu.py        (kbMenu._cmd_list, kbMenu._cmd_add,  *)
(*       StoreOnBackConfigMenu._cmd_back)                                  *)
(* The HTTP server, the 404 fingerprint and XML parsing are environment:   *)
(* their outcomes are drawn from bounded sets.  worker_pool.map has the    *)
(* semantics of the standard library's multiprocessing.pool: the iterable  *)
(* is cut into chunks, one worker maps the function over a chunk, the      *)
(* first exception ends that chunk and makes map() raise in the caller.    *)
(***************************************************************************)
EXTENDS Integers, Sequences, FiniteSets, TLC

VARIABLES
    plugin,            \* which plugin instance this run is about
    profile,           \* which family of bodies the HTTP server answers with
    wordlist,          \* the lines of the wordlist file (ria_enumerator._wordlist)
    hosted,            \* URLs for which is_404(response) is false
    flaky,             \* URLs for which _uri_opener.GET raises
    already_executed,  \* the run-once latch of the plugin instance
    calls,             \* number of crawl() calls made so far
    crawl_pc,          \* "idle", or "map" while crawl() blocks in worker_pool.map
    crawl_result,      \* how the last finished crawl() call ended
    taskqueue,         \* chunks handed to the pool and not yet taken by a worker
    job,               \* the MapResult of the running/last worker_pool.map call
    workers,           \* per pool thread: its chunk, position and current call
    kb,                \* the knowledge base: bucket key -> list of findings
    fetches,           \* the GET requests made: how often each URL was requested
    handed,            \* per crawl() call, the list handed to worker_pool.map
    http_response,     \* urllist_txt.crawl's local http_response, while it is live
    menu,              \* the console's current menu: "kb", or the template being edited
    cmd_log,           \* the last console command: its name, parameters, what it did
    cmd_result,        \* what the last console command returned
    commands           \* number of console commands given so far

console_vars == <<menu, cmd_log, cmd_result, commands>>

vars == <<plugin, profile, wordlist, hosted, flaky, already_executed, calls,
          crawl_pc, crawl_result, taskqueue, job, workers, kb, fetches, handed,
          http_response, menu, cmd_log, cmd_result, commands>>

-----------------------------------------------------------------------------
(* Bounds of the model *)

NumWords == 2      \* longest wordlist file
MaxElems == 2      \* most elements in an XML policy body
MaxLines == 6      \* most lines in a urllist.txt body
MaxCalls == 2      \* crawl() calls made on the instance
NumWorkers == 2    \* threads of the worker pool
MaxArgs == 2       \* most parameters given to a console command
MaxCommands == 3   \* console commands given in a run

(* Program constants *)

chunksize == 10    \* ria_enumerator.crawl: worker_pool.map(..., chunksize=10)

Workers == 1..NumWorkers

-----------------------------------------------------------------------------
(* URLs.  A URL under the base URL is its file name: word w of the wordlist *)
(* followed by extension f, or (w = 0) the fixed name f.                    *)

extensions == <<"", ".php", ".json", ".txt", ".gears">>

WordUrl(w, ext) == [w |-> w, f |-> ext]
FixedUrl(name) == [w |-> 0, f |-> name]

cross_domain_url == FixedUrl("crossdomain.xml")
client_access_url == FixedUrl("clientaccesspolicy.xml")

\* url.get_file_name() == name
FileNameIs(url, name) == url.w = 0 /\ url.f = name

RECURSIVE Flatten(_)
Flatten(ss) == IF ss = <<>> THEN <<>> ELSE Head(ss) \o Flatten(Tail(ss))

\* _url_generator: for ext in extensions: for word in file(wordlist): yield;
\* then crossdomain.xml, then clientaccesspolicy.xml.
url_generator(words) ==
    Flatten([e \in 1..Len(extensions) |->
                [k \in 1..Len(words) |-> WordUrl(words[k], extensions[e])]])
    \o <<cross_domain_url, client_access_url>>

Range(s) == {s[k] : k \in 1..Len(s)}


-----------------------------------------------------------------------------
(* HTTP response bodies.  A body is what the classifiers can observe of it: *)
(*   entries  whether the text contains the substring "entries":            *)
(*   xml      whether xml.dom.minidom.parseString accepts it                *)
(*   elems    for a body that parses, its elements in document order, each  *)
(*            with its tag name and its domain / uri attribute ("" when     *)
(*            absent, which is what getAttribute returns)                   *)
(*   markers  for a body that does not parse, which of the three marker     *)
(*            substrings it contains                                        *)

Markers == {"allow-access-from", "cross-domain-policy", "cross-domain-access"}

Element(tag, domain, uri) == [tag |-> tag, domain |-> domain, uri |-> uri]

ElementKinds ==
    { Element("allow-access-from", "*", ""),
      Element("allow-access-from", "a.example", ""),
      Element("allow-access-from", "b.example", ""),
      Element("allow-access-from", "", ""),
      Element("domain", "", "*"),
      Element("domain", "", "http://a.example"),
      Element("domain", "", "http://b.example"),
      Element("policy", "", "") }

XmlBody(entries, elems) ==
    [entries |-> entries, xml |-> TRUE, elems |-> elems, markers |-> {}]
TextBody(entries, markers) ==
    [entries |-> entries, xml |-> FALSE, elems |-> <<>>, markers |-> markers]

SeqsUpTo(S, n) == UNION {[1..k -> S] : k \in 0..n}

BroadBodies ==
    {XmlBody(e, els) : e \in BOOLEAN, els \in SeqsUpTo(ElementKinds, MaxElems)}
    \cup {TextBody(e, ms) : e \in BOOLEAN, ms \in SUBSET Markers}

NarrowBodies ==
    { XmlBody(FALSE, <<Element("allow-access-from", "*", ""),
                       Element("allow-access-from", "a.example", "")>>),
      XmlBody(TRUE, <<Element("domain", "", "http://a.example")>>),
      TextBody(TRUE, {"cross-domain-policy"}),
      TextBody(FALSE, {}) }

\* Two bodies: two rules for specific origins, and text that is not XML
SessionBodies ==
    { XmlBody(TRUE, <<Element("allow-access-from", "a.example", ""),
                      Element("allow-access-from", "b.example", "")>>),
      TextBody(FALSE, {"cross-domain-policy"}) }

ServerBodies ==
    IF profile = "broad" THEN BroadBodies
    ELSE IF profile = "session" THEN SessionBodies
    ELSE NarrowBodies

NoUrl == FixedUrl("")
NoBody == TextBody(FALSE, {})

-----------------------------------------------------------------------------
(* Findings and the knowledge base *)

\* url.get_file_name(): the word and the extension, or the fixed name
get_file_name(url) == <<url.w, url.f>>

\* An Info object: Info(name, desc, response.id, plugin_name), then set_url /
\* set_method.  A description is its format string and the values put in it.
Info(name, desc, id, plugin_name, url, method) ==
    [cls |-> "Info", name |-> name, desc |-> desc, severity |-> "INFORMATION",
     id |-> id, plugin |-> plugin_name, url |-> url, method |-> method]

\* A Vuln object: Vuln(name, desc, severity, response.id, plugin_name)
Vuln(name, desc, severity, id, plugin_name, url, method) ==
    [cls |-> "Vuln", name |-> name, desc |-> desc, severity |-> severity,
     id |-> id, plugin |-> plugin_name, url |-> url, method |-> method]

\* Bucket keys: a fixed tag, or a URL (the gears manifest finding)
TagKey(tag) == [tag |-> tag, url |-> NoUrl]
UrlKey(url) == [tag |-> "url", url |-> url]

Bucket(store, key) == IF key \in DOMAIN store THEN store[key] ELSE <<>>

\* kb.kb.append(self, key, finding)
kb_append(store, key, finding) ==
    IF key \in DOMAIN store
    THEN [store EXCEPT ![key] = Append(@, finding)]
    ELSE store @@ (key :> <<finding>>)


NoFile == <<0, "">>

\* A description: the format string (named by what it says) and its values
Desc(text, file_name, url) == [text |-> text, file |-> file_name, url |-> url]

-----------------------------------------------------------------------------
(* The worker pool: worker_pool.map(func, iterable, chunksize) *)

RECURSIVE Chunks(_, _)
Chunks(items, size) ==
    IF items = <<>> THEN <<>>
    ELSE IF Len(items) <= size THEN <<items>>
    ELSE <<SubSeq(items, 1, size)>> \o Chunks(SubSeq(items, size + 1, Len(items)), size)

Task(func, chunk) == [func |-> func, chunk |-> chunk]

IdleWorker ==
    [pc |-> "idle", func |-> "none", chunk |-> <<>>, idx |-> 0, url |-> NoUrl,
     resp |-> NoBody, i |-> 0, emitted |-> <<>>, outcome |-> "none"]

NoResponse == [absent |-> TRUE, body |-> <<>>]

NoJob == [pending |-> 0, failed |-> FALSE]

\* map_async: one task per chunk is put on the task queue
Submit(func, items, size) ==
    /\ taskqueue' = taskqueue \o [k \in 1..Len(Chunks(items, size)) |->
                                    Task(func, Chunks(items, size)[k])]
    /\ job' = [pending |-> Len(Chunks(items, size)), failed |-> FALSE]

\* An idle pool thread takes the next chunk
TakeTask(w) ==
    /\ workers[w].pc = "idle"
    /\ taskqueue # <<>>
    /\ workers' = [workers EXCEPT ![w] =
          [IdleWorker EXCEPT !.pc = "call", !.func = Head(taskqueue).func,
                             !.chunk = Head(taskqueue).chunk, !.idx = 1]]
    /\ taskqueue' = Tail(taskqueue)
    /\ UNCHANGED <<console_vars, plugin, profile, wordlist, hosted, flaky, already_executed,
                   calls, crawl_pc, crawl_result, job, kb, fetches, handed, http_response>>

\* func(item) returned: the worker goes on to the next item of its chunk;
\* after the last one the chunk's result is delivered to the MapResult.
Returned(w, wk, outcome) ==
    IF wk.idx < Len(wk.chunk)
    THEN /\ workers' = [workers EXCEPT ![w] =
                [wk EXCEPT !.pc = "call", !.idx = @ + 1, !.outcome = outcome]]
         /\ job' = job
    ELSE /\ workers' = [workers EXCEPT ![w] =
                [wk EXCEPT !.pc = "idle", !.outcome = outcome]]
         /\ job' = [job EXCEPT !.pending = @ - 1]

\* func(item) raised: mapstar stops, the rest of the chunk is not mapped, and
\* the chunk's result is the exception.
Raised(w, wk, outcome) ==
    /\ workers' = [workers EXCEPT ![w] =
            [wk EXCEPT !.pc = "idle", !.outcome = outcome]]
    /\ job' = [pending |-> job.pending - 1, failed |-> TRUE]

\* The log of GET requests: how often each URL was requested
LogFetch(log, url) ==
    IF url \in DOMAIN log THEN [log EXCEPT ![url] = @ + 1] ELSE log @@ (url :> 1)

Fetched(url) == IF url \in DOMAIN fetches THEN fetches[url] ELSE 0


-----------------------------------------------------------------------------
(* ria_enumerator: the classifiers *)

\* Variant: the marker counts only in a body that parses as XML
analyze_gears_manifest_parsed(url, resp) ==
    IF resp.entries /\ resp.xml
    THEN << <<UrlKey(url),
              Info("Gears manifest resource",
                   Desc("A gears manifest file was found at", NoFile, url),
                   url, "ria_enumerator", url, "None")>> >>
    ELSE <<>>

\* _analyze_gears_manifest: what it appends, as <<bucket key, finding>>
analyze_gears_manifest(url, resp) ==
    IF resp.entries
    THEN << <<UrlKey(url),
              Info("Gears manifest resource",
                   Desc("A gears manifest file was found at", NoFile, url),
                   url, "ria_enumerator", url, "None")>> >>
    ELSE <<>>

\* Variant: one test and one append per marker substring, not one for all three
analyze_invalid_xml_per_marker(url, resp) ==
    LET one == <<TagKey("info"),
                 Info("Invalid RIA settings file",
                      Desc("is not a valid XML", get_file_name(url), url),
                      url, "ria_enumerator", url, "None")>>
    IN  (IF "allow-access-from" \in resp.markers THEN <<one>> ELSE <<>>)
        \o (IF "cross-domain-policy" \in resp.markers THEN <<one>> ELSE <<>>)
        \o (IF "cross-domain-access" \in resp.markers THEN <<one>> ELSE <<>>)

\* _analyze_crossdomain_clientaccesspolicy, parseString raised: what it appends
analyze_invalid_xml(url, resp) ==
    IF \/ "allow-access-from" \in resp.markers
       \/ "cross-domain-policy" \in resp.markers
       \/ "cross-domain-access" \in resp.markers
    THEN << <<TagKey("info"),
              Info("Invalid RIA settings file",
                   Desc("is not a valid XML", get_file_name(url), url),
                   url, "ria_enumerator", url, "None")>> >>
    ELSE <<>>

\* Whether the else branch assigns url_list and attribute at all: only the two
\* ifs on file_name do, there is no default.
url_list_bound(url) ==
    \/ FileNameIs(url, "crossdomain.xml")
    \/ FileNameIs(url, "clientaccesspolicy.xml")

\* Variant: the tag name of crossdomain.xml used for both files
url_list_one_tag(url, resp) ==
    SelectSeq(resp.elems, LAMBDA e : e.tag = "allow-access-from")

\* dom.getElementsByTagName(...) as chosen by file_name
url_list(url, resp) ==
    IF FileNameIs(url, "clientaccesspolicy.xml")
    THEN SelectSeq(resp.elems, LAMBDA e : e.tag = "domain")
    ELSE SelectSeq(resp.elems, LAMBDA e : e.tag = "allow-access-from")

\* url.getAttribute(attribute), attribute chosen by file_name
getAttribute(url, elem) ==
    IF FileNameIs(url, "clientaccesspolicy.xml") THEN elem.uri ELSE elem.domain

\* The description built in the loop body, before the test on the value: the
\* same format string and values for both kinds of finding.
acl_desc(url, value) ==
    Desc("allows flash/silverlight access from any site", get_file_name(url), url)

\* One pass of the loop over url_list: what it appends
analyze_element(url, elem) ==
    IF getAttribute(url, elem) = "*"
    THEN <<TagKey("vuln"),
           Vuln("Insecure RIA settings", acl_desc(url, getAttribute(url, elem)),
                "LOW", url, "ria_enumerator", url, "GET")>>
    ELSE <<TagKey("info"),
           Info("Cross-domain allow ACL", acl_desc(url, getAttribute(url, elem)),
                url, "ria_enumerator", url, "GET")>>

\* The appends of one classifier step, applied to the store and logged in the
\* worker's record of its current call
Emit(w, wk, pairs, pc, i) ==
    [wk EXCEPT !.pc = pc, !.i = i, !.emitted = @ \o pairs]

\* Variant: an append that writes back the bucket as its writer last saw it,
\* without what calls on other URLs appended to it meanwhile
RECURSIVE AppendAllStale(_, _)
AppendAllStale(store, pairs) ==
    IF pairs = <<>> THEN store
    ELSE AppendAllStale(
             [k \in DOMAIN store \cup {Head(pairs)[1]} |->
                 IF k = Head(pairs)[1]
                 THEN SelectSeq(Bucket(store, k),
                                LAMBDA f : f.url = Head(pairs)[2].url)
                      \o <<Head(pairs)[2]>>
                 ELSE store[k]],
             Tail(pairs))

\* Variant: each finding is saved as the whole content of its bucket
RECURSIVE SaveAll(_, _)
SaveAll(store, pairs) ==
    IF pairs = <<>> THEN store
    ELSE SaveAll([k \in DOMAIN store \cup {Head(pairs)[1]} |->
                     IF k = Head(pairs)[1] THEN <<Head(pairs)[2]>> ELSE store[k]],
                 Tail(pairs))

RECURSIVE AppendAll(_, _)
AppendAll(store, pairs) ==
    IF pairs = <<>> THEN store
    ELSE AppendAll(kb_append(store, Head(pairs)[1], Head(pairs)[2]), Tail(pairs))

-----------------------------------------------------------------------------
(* ria_enumerator._send_and_check, one step per GET / kb.append *)

\* Variant: _send_and_check without the is_404 test
SendAndCheckGetUnfiltered(w) ==
    LET wk == workers[w]
        url == wk.chunk[wk.idx]
        cur == [wk EXCEPT !.url = url, !.resp = NoBody, !.i = 0, !.emitted = <<>>]
    IN  /\ wk.pc = "call"
        /\ wk.func = "_send_and_check"
        /\ fetches' = LogFetch(fetches, url)
        /\ IF url \in flaky
           THEN Raised(w, cur, "GET raised")
           ELSE /\ \E body \in ServerBodies :
                      workers' = [workers EXCEPT ![w] =
                          [cur EXCEPT !.pc = "gears", !.resp = body,
                                      !.outcome = "running"]]
                /\ job' = job
        /\ UNCHANGED <<console_vars, plugin, profile, wordlist, hosted, flaky, already_executed,
                       calls, crawl_pc, crawl_result, taskqueue, kb, handed, http_response>>

\* response = self._uri_opener.GET(url, cache=True); if is_404(response): return
SendAndCheckGet(w) ==
    LET wk == workers[w]
        url == wk.chunk[wk.idx]
        cur == [wk EXCEPT !.url = url, !.resp = NoBody, !.i = 0, !.emitted = <<>>]
    IN  /\ wk.pc = "call"
        /\ wk.func = "_send_and_check"
        /\ fetches' = LogFetch(fetches, url)
        /\ IF url \in flaky
           THEN Raised(w, cur, "GET raised")
           ELSE IF url \notin hosted
           THEN Returned(w, cur, "absent")
           ELSE /\ \E body \in ServerBodies :
                      workers' = [workers EXCEPT ![w] =
                          [cur EXCEPT !.pc = "gears", !.resp = body,
                                      !.outcome = "running"]]
                /\ job' = job
        /\ UNCHANGED <<console_vars, plugin, profile, wordlist, hosted, flaky, already_executed,
                       calls, crawl_pc, crawl_result, taskqueue, kb, handed, http_response>>

\* Variant: the manifest classifier is not applied to the two policy files
SendAndCheckGearsByName(w) ==
    LET wk == workers[w]
        out == IF url_list_bound(wk.url) THEN <<>>
               ELSE analyze_gears_manifest(wk.url, wk.resp)
    IN  /\ wk.pc = "gears"
        /\ kb' = AppendAll(kb, out)
        /\ workers' = [workers EXCEPT ![w] = Emit(w, wk, out, "parse", 0)]
        /\ UNCHANGED <<console_vars, plugin, profile, wordlist, hosted, flaky, already_executed,
                       calls, crawl_pc, crawl_result, taskqueue, job, fetches,
                       handed, http_response>>

\* self._analyze_gears_manifest(url, response, file_name)
SendAndCheckGears(w) ==
    LET wk == workers[w]
        out == analyze_gears_manifest(wk.url, wk.resp)
    IN  /\ wk.pc = "gears"
        /\ kb' = AppendAll(kb, out)
        /\ workers' = [workers EXCEPT ![w] = Emit(w, wk, out, "parse", 0)]
        /\ UNCHANGED <<console_vars, plugin, profile, wordlist, hosted, flaky, already_executed,
                       calls, crawl_pc, crawl_result, taskqueue, job, fetches,
                       handed, http_response>>

\* self._analyze_crossdomain_clientaccesspolicy(...), up to the for loop
SendAndCheckParse(w) ==
    LET wk == workers[w]
        out == analyze_invalid_xml(wk.url, wk.resp)
    IN  /\ wk.pc = "parse"
        /\ IF ~wk.resp.xml
           THEN /\ kb' = AppendAll(kb, out)
                /\ Returned(w, Emit(w, wk, out, "call", 0), "returned")
           ELSE IF ~url_list_bound(wk.url)
           THEN /\ kb' = kb
                /\ Raised(w, wk, "UnboundLocalError")
           ELSE IF url_list(wk.url, wk.resp) = <<>>
           THEN /\ kb' = kb
                /\ Returned(w, wk, "returned")
           ELSE /\ kb' = kb
                /\ workers' = [workers EXCEPT ![w] = [wk EXCEPT !.pc = "loop", !.i = 1]]
                /\ job' = job
        /\ UNCHANGED <<console_vars, plugin, profile, wordlist, hosted, flaky, already_executed,
                       calls, crawl_pc, crawl_result, taskqueue, fetches, handed, http_response>>

\* for url in url_list: ... kb.kb.append(self, 'vuln' / 'info', ...)
SendAndCheckLoop(w) ==
    LET wk == workers[w]
        els == url_list(wk.url, wk.resp)
        out == <<analyze_element(wk.url, els[wk.i])>>
    IN  /\ wk.pc = "loop"
        /\ kb' = AppendAll(kb, out)
        /\ IF wk.i < Len(els)
           THEN /\ workers' = [workers EXCEPT ![w] = Emit(w, wk, out, "loop", wk.i + 1)]
                /\ job' = job
           ELSE Returned(w, Emit(w, wk, out, "call", wk.i), "returned")
        /\ UNCHANGED <<console_vars, plugin, profile, wordlist, hosted, flaky, already_executed,
                       calls, crawl_pc, crawl_result, taskqueue, fetches, handed, http_response>>

-----------------------------------------------------------------------------
(* The run-once decorator and ria_enumerator.crawl *)

\* @runonce(exc_class=...): the first call sets the latch and runs the method,
\* every later call raises exc_class and runs nothing.
runonce(exc_class, meth) ==
    IF ~already_executed
    THEN /\ already_executed' = TRUE
         /\ meth
    ELSE /\ crawl_result' = exc_class
         /\ UNCHANGED <<already_executed, crawl_pc, taskqueue, job, workers, kb,
                        fetches, handed, http_response>>

\* The body of ria_enumerator.crawl up to the blocking worker_pool.map call
ria_crawl ==
    /\ Submit("_send_and_check", url_generator(wordlist), chunksize)
    /\ handed' = Append(handed, url_generator(wordlist))
    /\ crawl_pc' = "map"
    /\ UNCHANGED <<crawl_result, workers, kb, fetches, http_response>>

\* Variant: crawl without the run-once decorator
RiaCrawlUndecorated ==
    /\ plugin = "ria_enumerator"
    /\ crawl_pc = "idle"
    /\ calls < MaxCalls
    /\ calls' = calls + 1
    /\ already_executed' = TRUE
    /\ ria_crawl
    /\ UNCHANGED <<console_vars, plugin, profile, wordlist, hosted, flaky>>

RiaCrawl ==
    /\ plugin = "ria_enumerator"
    /\ crawl_pc = "idle"
    /\ calls < MaxCalls
    /\ calls' = calls + 1
    /\ runonce("w3afRunOnce", ria_crawl)
    /\ UNCHANGED <<console_vars, plugin, profile, wordlist, hosted, flaky>>

\* worker_pool.map returns once every chunk is done, or raises as soon as one
\* chunk's result is an exception; then ria_enumerator.crawl does `return []`.
RiaCrawlReturn ==
    /\ plugin = "ria_enumerator"
    /\ crawl_pc = "map"
    /\ job.failed \/ job.pending = 0
    /\ crawl_pc' = "idle"
    /\ crawl_result' = IF job.failed THEN "raised" ELSE "[]"
    /\ UNCHANGED <<console_vars, plugin, profile, wordlist, hosted, flaky, already_executed,
                   calls, taskqueue, job, workers, kb, fetches, handed, http_response>>

-----------------------------------------------------------------------------
(* urllist_txt: the body of urllist.txt.  body.split('\n') is a sequence of *)
(* lines; a line is its text between leading and trailing whitespace, and   *)
(* whether it has such whitespace.                                          *)

Line(lead, text, trail) == [lead |-> lead, text |-> text, trail |-> trail]

RawLines ==
    { Line(TRUE, "", FALSE),        \* whitespace only
      Line(TRUE, "#c", FALSE),      \* an indented comment
      Line(FALSE, "/a", TRUE),      \* a path, trailing whitespace
      Line(FALSE, "/b", FALSE),     \* a path
      Line(FALSE, "!", FALSE) }     \* text that url_join rejects

\* The example of the specification: 6 lines that do not resolve and 3 that do
ExampleBody ==
    << Line(FALSE, "!", FALSE), Line(FALSE, "/a", TRUE), Line(FALSE, "!", FALSE),
       Line(FALSE, "!", FALSE), Line(FALSE, "/b", FALSE), Line(FALSE, "!", FALSE),
       Line(FALSE, "!", FALSE), Line(FALSE, "/a", TRUE), Line(FALSE, "!", FALSE) >>

ListBodies == (SeqsUpTo(RawLines, MaxLines) \ {<<>>}) \cup {ExampleBody}

\* The bodies the server answers a GET of urllist.txt with
ListServerBodies ==
    IF profile = "session"
    THEN {ExampleBody, <<Line(FALSE, "/a", TRUE), Line(FALSE, "/b", FALSE)>>}
    ELSE ListBodies

\* line.strip()
strip(line) == Line(FALSE, line.text, FALSE)

\* line.startswith('#')
startswith_hash(line) == ~line.lead /\ line.text \in {"#", "#c"}

\* the truth value of a str: it is not empty
nonempty(line) == line.lead \/ line.text # "" \/ line.trail

\* base_url.url_join(line) raises for text that is no URL
url_join_raises(line) == line.text = "!"
url_join(line) == FixedUrl(line.text)

urllist_url == FixedUrl("urllist.txt")

\* Variant: blank lines are not skipped, and count as lines that do not resolve
RECURSIVE is_urllist_counter_blanks(_, _)
is_urllist_counter_blanks(lines, is_urllist) ==
    IF lines = <<>> THEN is_urllist
    ELSE LET line == strip(Head(lines))
         IN  IF ~startswith_hash(line) /\ (~nonempty(line) \/ url_join_raises(line))
             THEN is_urllist_counter_blanks(Tail(lines), is_urllist - 1)
             ELSE is_urllist_counter_blanks(Tail(lines), is_urllist)

\* _is_urllist_txt: the counter after the loop over the lines
RECURSIVE is_urllist_counter(_, _)
is_urllist_counter(lines, is_urllist) ==
    IF lines = <<>> THEN is_urllist
    ELSE LET line == strip(Head(lines))
         IN  IF ~startswith_hash(line) /\ nonempty(line) /\ url_join_raises(line)
             THEN is_urllist_counter(Tail(lines), is_urllist - 1)
             ELSE is_urllist_counter(Tail(lines), is_urllist)

is_urllist_start == 5

\* bool(n) of an int
bool(n) == n # 0

\* _is_urllist_txt(base_url, body)
is_urllist_txt(body) == bool(is_urllist_counter(body, is_urllist_start))

\* Variant: the try statement around the loop, so that the first line that does
\* not resolve ends the generator
RECURSIVE extract_urls_until_error(_)
extract_urls_until_error(lines) ==
    IF lines = <<>> THEN <<>>
    ELSE LET line == strip(Head(lines))
         IN  IF startswith_hash(line) \/ ~nonempty(line)
             THEN extract_urls_until_error(Tail(lines))
             ELSE IF url_join_raises(line) THEN <<>>
             ELSE <<url_join(line)>> \o extract_urls_until_error(Tail(lines))

\* _extract_urls_generator(base_url, body), as the list of what it yields
RECURSIVE extract_urls_generator(_)
extract_urls_generator(lines) ==
    IF lines = <<>> THEN <<>>
    ELSE LET line == strip(Head(lines))
         IN  IF ~startswith_hash(line) /\ nonempty(line) /\ ~url_join_raises(line)
             THEN <<url_join(line)>> \o extract_urls_generator(Tail(lines))
             ELSE extract_urls_generator(Tail(lines))

\* What urllist_txt.crawl appends for a body classified as a urllist.txt
urllist_finding ==
    <<TagKey("urllist.txt"),
      Info("urllist.txt file", Desc("A urllist.txt file was found at", NoFile, urllist_url),
           urllist_url, "urllist_txt", urllist_url, "None")>>

\* Pool.map without chunksize: divmod(len(iterable), len(pool) * 4), rounded up
default_chunksize(n) ==
    (n \div (NumWorkers * 4)) + (IF n % (NumWorkers * 4) # 0 THEN 1 ELSE 0)

-----------------------------------------------------------------------------
(* urllist_txt.crawl *)

\* http_response = self._uri_opener.GET(urllist_url, cache=True)
urllist_crawl ==
    /\ fetches' = LogFetch(fetches, urllist_url)
    /\ IF urllist_url \in flaky
       THEN /\ crawl_result' = "raised"
            /\ UNCHANGED <<crawl_pc, http_response>>
       ELSE /\ crawl_pc' = "got"
            /\ \E body \in ListServerBodies :
                  http_response' = [absent |-> urllist_url \notin hosted, body |-> body]
            /\ UNCHANGED crawl_result
    /\ UNCHANGED <<taskqueue, job, workers, kb, handed>>

\* Variant: crawl without the run-once decorator
UrlCrawlUndecorated ==
    /\ plugin = "urllist_txt"
    /\ crawl_pc = "idle"
    /\ calls < MaxCalls
    /\ calls' = calls + 1
    /\ already_executed' = TRUE
    /\ urllist_crawl
    /\ UNCHANGED <<console_vars, plugin, profile, wordlist, hosted, flaky>>

UrlCrawl ==
    /\ plugin = "urllist_txt"
    /\ crawl_pc = "idle"
    /\ calls < MaxCalls
    /\ calls' = calls + 1
    /\ runonce("w3afRunOnce", urllist_crawl)
    /\ UNCHANGED <<console_vars, plugin, profile, wordlist, hosted, flaky>>

\* Variant: the finding is appended for every present response, whatever
\* _is_urllist_txt says
UrlCrawlClassifyAlways ==
    /\ plugin = "urllist_txt"
    /\ crawl_pc = "got"
    /\ IF http_response.absent
       THEN /\ crawl_pc' = "idle"
            /\ crawl_result' = "None"
            /\ http_response' = NoResponse
            /\ kb' = kb
       ELSE /\ crawl_pc' = "classified"
            /\ kb' = AppendAll(kb, <<urllist_finding>>)
            /\ UNCHANGED <<crawl_result, http_response>>
    /\ UNCHANGED <<console_vars, plugin, profile, wordlist, hosted, flaky, already_executed,
                   calls, taskqueue, job, workers, fetches, handed>>

\* if not is_404(http_response): if self._is_urllist_txt(...): kb.kb.append(...)
\* With is_404 true the method falls off its end and returns None.
UrlCrawlClassify ==
    /\ plugin = "urllist_txt"
    /\ crawl_pc = "got"
    /\ IF http_response.absent
       THEN /\ crawl_pc' = "idle"
            /\ crawl_result' = "None"
            /\ http_response' = NoResponse
            /\ kb' = kb
       ELSE /\ crawl_pc' = "classified"
            /\ kb' = IF is_urllist_txt(http_response.body)
                     THEN AppendAll(kb, <<urllist_finding>>)
                     ELSE kb
            /\ UNCHANGED <<crawl_result, http_response>>
    /\ UNCHANGED <<console_vars, plugin, profile, wordlist, hosted, flaky, already_executed,
                   calls, taskqueue, job, workers, fetches, handed>>

\* url_generator = self._extract_urls_generator(...); worker_pool.map first
\* makes a list of the iterable it is given.
UrlCrawlExtract ==
    /\ plugin = "urllist_txt"
    /\ crawl_pc = "classified"
    /\ crawl_pc' = "listed"
    /\ handed' = Append(handed, extract_urls_generator(http_response.body))
    /\ UNCHANGED <<console_vars, plugin, profile, wordlist, hosted, flaky, already_executed,
                   calls, crawl_result, taskqueue, job, workers, kb, fetches,
                   http_response>>

\* worker_pool.map(self.http_get_and_parse, url_generator): the chunks go to
\* the task queue; http_response is not used again.
UrlCrawlMap ==
    /\ plugin = "urllist_txt"
    /\ crawl_pc = "listed"
    /\ crawl_pc' = "map"
    /\ Submit("http_get_and_parse", handed[Len(handed)],
              default_chunksize(Len(handed[Len(handed)])))
    /\ http_response' = NoResponse
    /\ UNCHANGED <<console_vars, plugin, profile, wordlist, hosted, flaky, already_executed,
                   calls, crawl_result, workers, kb, fetches, handed>>

\* worker_pool.map returns or raises; crawl has no return statement
UrlCrawlReturn ==
    /\ plugin = "urllist_txt"
    /\ crawl_pc = "map"
    /\ job.failed \/ job.pending = 0
    /\ crawl_pc' = "idle"
    /\ crawl_result' = IF job.failed THEN "raised" ELSE "None"
    /\ UNCHANGED <<console_vars, plugin, profile, wordlist, hosted, flaky, already_executed,
                   calls, taskqueue, job, workers, kb, fetches, handed,
                   http_response>>

\* CrawlPlugin.http_get_and_parse(url): the GET of one follow-up candidate
HttpGetAndParse(w) ==
    LET wk == workers[w]
        url == wk.chunk[wk.idx]
        cur == [wk EXCEPT !.url = url]
    IN  /\ wk.pc = "call"
        /\ wk.func = "http_get_and_parse"
        /\ fetches' = LogFetch(fetches, url)
        /\ IF url \in flaky
           THEN Raised(w, cur, "GET raised")
           ELSE Returned(w, cur, "returned")
        /\ UNCHANGED <<console_vars, plugin, profile, wordlist, hosted, flaky, already_executed,
                       calls, crawl_pc, crawl_result, taskqueue, kb, handed,
                       http_response>>

-----------------------------------------------------------------------------
(* The console: kbMenu and StoreOnBackConfigMenu.  A command is logged as   *)
(* the sequence of calls it makes and messages it emits.                    *)

Event(ev, text, a, b, n) == [ev |-> ev, text |-> text, a |-> a, b |-> b, n |-> n]

NoCommand == [name |-> "none", params |-> <<>>, events |-> <<>>]

\* kbMenu.__getters: data type -> KB getter, and its column names
getters ==
    [vulns |-> "get_all_vulns", info |-> "get_all_infos", shells |-> "get_all_shells"]

colNames ==
    [vulns |-> <<"Vulnerability", "Description">>,
     info |-> <<"Info", "Description">>,
     shells |-> <<"Shells", "Description">>]

\* The template catalog: get_template_names()
get_template_names == {"dav", "os_commanding"}

\* template.get_vulnerability_name()
get_vulnerability_name(template_name) ==
    IF template_name = "dav" THEN "DAV Misconfiguration" ELSE "OS Commanding"

\* What the operator can type after `list` and after `add`: any parameters,
\* or a few of them while a scan runs beside the console
ListParams ==
    IF profile = "session"
    THEN {<<>>, <<"vulns", "info">>, <<"bogus">>}
    ELSE SeqsUpTo({"vulns", "info", "shells", "bogus"}, MaxArgs)
AddParams ==
    IF profile = "session"
    THEN {<<"dav">>, <<"bogusTemplate">>}
    ELSE SeqsUpTo(get_template_names \cup {"bogusTemplate"}, MaxArgs)

\* kb.kb.get_all_vulns / get_all_infos / get_all_shells: the number of findings
\* of the class in all buckets.  No plugin of this model stores a shell.
RECURSIVE count_all(_, _, _)
count_all(store, keys, cls) ==
    IF keys = {} THEN 0
    ELSE LET k == CHOOSE x \in keys : TRUE
         IN  Len(SelectSeq(store[k], LAMBDA f : f.cls = cls))
                + count_all(store, keys \ {k}, cls)

kb_getter(store, getter) ==
    IF getter = "get_all_vulns" THEN count_all(store, DOMAIN store, "Vuln")
    ELSE IF getter = "get_all_infos" THEN count_all(store, DOMAIN store, "Info")
    ELSE 0

\* Variant: the first unknown type ends the loop
RECURSIVE list_until_unknown(_, _)
list_until_unknown(params, store) ==
    IF params = <<>> THEN <<>>
    ELSE LET p == Head(params)
         IN  IF p \in DOMAIN getters
             THEN <<Event("kb", getters[p], "", "", 0),
                    Event("draw_table", colNames[p][1], colNames[p][2], "",
                          kb_getter(store, getters[p]))>>
                  \o list_until_unknown(Tail(params), store)
             ELSE <<Event("console", "Type %s is unknown", p, "", 0)>>

\* for p in params: the KB getter and _list_objects, or the message
RECURSIVE list_each(_, _)
list_each(params, store) ==
    IF params = <<>> THEN <<>>
    ELSE LET p == Head(params)
         IN  (IF p \in DOMAIN getters
              THEN <<Event("kb", getters[p], "", "", 0),
                     Event("draw_table", colNames[p][1], colNames[p][2], "",
                           kb_getter(store, getters[p]))>>
              ELSE <<Event("console", "Type %s is unknown", p, "", 0)>>)
             \o list_each(Tail(params), store)

\* kbMenu._cmd_list(params): the events of the command
cmd_list(params, store) ==
    IF Len(params) > 0
    THEN list_each(params, store)
    ELSE <<Event("console", "Parameter type is missing, see the help:", "", "", 0),
           Event("_cmd_help", "list", "", "", 0)>>

\* Variant: no test for more than one parameter, the first one is used
cmd_add_first_param(params) ==
    IF Len(params) = 0
    THEN [events |-> <<Event("console", "Parameter type is missing, see the help:",
                             "", "", 0),
                       Event("_cmd_help", "add", "", "", 0)>>,
          ret |-> "None"]
    ELSE IF params[1] \notin get_template_names
    THEN [events |-> <<Event("console", "Type %s is unknown", params[1], "", 0)>>,
          ret |-> "None"]
    ELSE [events |-> <<Event("get_template_by_name", params[1], "", "", 0)>>,
          ret |-> params[1]]

\* kbMenu._cmd_add(params): the events of the command and what it returns,
\* None or the StoreOnBackConfigMenu of the template
cmd_add(params) ==
    IF Len(params) = 0
    THEN [events |-> <<Event("console", "Parameter type is missing, see the help:",
                             "", "", 0),
                       Event("_cmd_help", "add", "", "", 0)>>,
          ret |-> "None"]
    ELSE IF Len(params) > 1
    THEN [events |-> <<Event("console", "Only one parameter is accepted, see the help:",
                             "", "", 0),
                       Event("_cmd_help", "add", "", "", 0)>>,
          ret |-> "None"]
    ELSE IF params[1] \notin get_template_names
    THEN [events |-> <<Event("console", "Type %s is unknown", params[1], "", 0)>>,
          ret |-> "None"]
    ELSE [events |-> <<Event("get_template_by_name", params[1], "", "", 0)>>,
          ret |-> params[1]]

\* template.store_in_kb(), when it does not raise: the vulnerability of the
\* template is appended to the bucket of the template
store_in_kb(store, template_name) ==
    kb_append(store, TagKey(template_name),
              Vuln(get_vulnerability_name(template_name),
                   Desc("template", NoFile, NoUrl), "HIGH", NoUrl,
                   template_name, NoUrl, "GET"))

\* Variant: the except clause reports the error and does not return, so that
\* the store is attempted after a failed save
cmd_back_store_after_error(template_name, save_raises, store_raises, store) ==
    LET saved == IF save_raises
                 THEN <<Event("_cmd_save", "w3afException", "", "", 0),
                        Event("error", "%s", "w3afException", "", 0)>>
                 ELSE <<Event("_cmd_save", "returned", "", "", 0)>>
    IN  IF store_raises
        THEN [events |-> saved \o
                  <<Event("store_in_kb", "Exception", "", "", 0),
                    Event("console",
                          "Failed to store %s in the knowledge base because of a configuration error at: %s.",
                          get_vulnerability_name(template_name), "Exception", 0)>>,
              kb |-> store,
              ret |-> "_console.back"]
        ELSE [events |-> saved \o
                  <<Event("store_in_kb", "returned", "", "", 0),
                    Event("console", "Stored %s in the knowledge base.",
                          get_vulnerability_name(template_name), "", 0)>>,
              kb |-> store_in_kb(store, template_name),
              ret |-> "_console.back"]

\* Variant: a store that raises is not caught, so that _cmd_back returns
\* nothing and emits no message of its own
cmd_back_store_uncaught(template_name, save_raises, store_raises, store) ==
    IF save_raises
    THEN [events |-> <<Event("_cmd_save", "w3afException", "", "", 0),
                       Event("error", "%s", "w3afException", "", 0)>>,
          kb |-> store,
          ret |-> "_console.back"]
    ELSE IF store_raises
    THEN [events |-> <<Event("_cmd_save", "returned", "", "", 0),
                       Event("store_in_kb", "Exception", "", "", 0)>>,
          kb |-> store,
          ret |-> "None"]
    ELSE [events |-> <<Event("_cmd_save", "returned", "", "", 0),
                       Event("store_in_kb", "returned", "", "", 0),
                       Event("console", "Stored %s in the knowledge base.",
                             get_vulnerability_name(template_name), "", 0)>>,
          kb |-> store_in_kb(store, template_name),
          ret |-> "_console.back"]

\* StoreOnBackConfigMenu._cmd_back(tokens): the events of the command, the
\* store after it and what it returns.  Whether _cmd_save and store_in_kb
\* raise is the operator's input and the template's matter.
cmd_back(template_name, save_raises, store_raises, store) ==
    IF save_raises
    THEN [events |-> <<Event("_cmd_save", "w3afException", "", "", 0),
                       Event("error", "%s", "w3afException", "", 0)>>,
          kb |-> store,
          ret |-> "_console.back"]
    ELSE IF store_raises
    THEN [events |-> <<Event("_cmd_save", "returned", "", "", 0),
                       Event("store_in_kb", "Exception", "", "", 0),
                       Event("console",
                             "Failed to store %s in the knowledge base because of a configuration error at: %s.",
                             get_vulnerability_name(template_name), "Exception", 0)>>,
          kb |-> store,
          ret |-> "_console.back"]
    ELSE [events |-> <<Event("_cmd_save", "returned", "", "", 0),
                       Event("store_in_kb", "returned", "", "", 0),
                       Event("console", "Stored %s in the knowledge base.",
                             get_vulnerability_name(template_name), "", 0)>>,
          kb |-> store_in_kb(store, template_name),
          ret |-> "_console.back"]

\* The console gives the next command to the menu the last one returned: the
\* parent for _console.back, the same menu for None.
next_menu(cur, ret) ==
    IF ret = "None" THEN cur
    ELSE IF ret = "_console.back" THEN "kb"
    ELSE ret

CmdList ==
    /\ menu = "kb"
    /\ commands < MaxCommands
    /\ commands' = commands + 1
    /\ \E params \in ListParams :
          cmd_log' = [name |-> "list", params |-> params,
                      events |-> cmd_list(params, kb)]
    /\ cmd_result' = "None"
    /\ menu' = next_menu(menu, "None")
    /\ UNCHANGED <<plugin, profile, wordlist, hosted, flaky, already_executed,
                   calls, crawl_pc, crawl_result, taskqueue, job, workers, kb,
                   fetches, handed, http_response>>

CmdAdd ==
    /\ menu = "kb"
    /\ commands < MaxCommands
    /\ commands' = commands + 1
    /\ \E params \in AddParams :
          /\ cmd_log' = [name |-> "add", params |-> params,
                         events |-> cmd_add(params).events]
          /\ cmd_result' = cmd_add(params).ret
          /\ menu' = next_menu(menu, cmd_add(params).ret)
    /\ UNCHANGED <<plugin, profile, wordlist, hosted, flaky, already_executed,
                   calls, crawl_pc, crawl_result, taskqueue, job, workers, kb,
                   fetches, handed, http_response>>

CmdBack ==
    /\ menu \in get_template_names
    /\ commands < MaxCommands
    /\ commands' = commands + 1
    /\ \E save_raises \in BOOLEAN, store_raises \in BOOLEAN :
          LET r == cmd_back(menu, save_raises, store_raises, kb)
          IN  /\ cmd_log' = [name |-> "back", params |-> <<menu>>,
                             events |-> r.events]
              /\ kb' = r.kb
              /\ cmd_result' = r.ret
              /\ menu' = next_menu(menu, r.ret)
    /\ UNCHANGED <<plugin, profile, wordlist, hosted, flaky, already_executed,
                   calls, crawl_pc, crawl_result, taskqueue, job, workers,
                   fetches, handed, http_response>>

-----------------------------------------------------------------------------
(* Specifications *)

AtMostOne(S) == {{}} \cup {{x} : x \in S}

InitIdle ==
    /\ already_executed = FALSE
    /\ calls = 0
    /\ crawl_pc = "idle"
    /\ crawl_result = "none"
    /\ taskqueue = <<>>
    /\ job = NoJob
    /\ workers = [w \in Workers |-> IdleWorker]
    /\ kb = <<>>
    /\ fetches = <<>>
    /\ handed = <<>>
    /\ http_response = NoResponse
    /\ menu = "kb"
    /\ cmd_log = NoCommand
    /\ cmd_result = "none"
    /\ commands = 0

\* ria_enumerator against a server that hosts at most one of the candidates
\* and fails on at most one other
InitRia ==
    /\ plugin = "ria_enumerator"
    /\ profile = "narrow"
    /\ wordlist \in {[k \in 1..n |-> k] : n \in 1..NumWords}
    /\ hosted \in AtMostOne(Range(url_generator(wordlist)))
    /\ flaky \in AtMostOne(Range(url_generator(wordlist)) \ hosted)
    /\ InitIdle

\* ria_enumerator on a one-word wordlist, the hosted resource having any body
InitClassify ==
    /\ plugin = "ria_enumerator"
    /\ profile = "broad"
    /\ wordlist = <<1>>
    /\ hosted \in AtMostOne(Range(url_generator(wordlist)))
    /\ flaky = {}
    /\ InitIdle

\* urllist_txt against a server that may host urllist.txt and may fail on
\* urllist.txt or on one follow-up candidate
InitUrllist ==
    /\ plugin = "urllist_txt"
    /\ profile = "narrow"
    /\ wordlist = <<>>
    /\ hosted \in AtMostOne({urllist_url})
    /\ flaky \in AtMostOne({urllist_url, FixedUrl("/a")} \ hosted)
    /\ InitIdle

NextUrllist ==
    \/ UrlCrawl
    \/ UrlCrawlClassify
    \/ UrlCrawlExtract
    \/ UrlCrawlMap
    \/ UrlCrawlReturn
    \/ \E w \in Workers : TakeTask(w)
    \/ \E w \in Workers : HttpGetAndParse(w)

NextRia ==
    \/ RiaCrawl
    \/ RiaCrawlReturn
    \/ \E w \in Workers : TakeTask(w)
    \/ \E w \in Workers : SendAndCheckGet(w)
    \/ \E w \in Workers : SendAndCheckGears(w)
    \/ \E w \in Workers : SendAndCheckParse(w)
    \/ \E w \in Workers : SendAndCheckLoop(w)

SpecRia == InitRia /\ [][NextRia]_vars

SpecClassify == InitClassify /\ [][NextRia]_vars

SpecUrllist == InitUrllist /\ [][NextUrllist]_vars

\* ria_enumerator on a wordlist of two words, so that worker_pool.map cuts the
\* 12 candidates into two chunks, against a server that hosts candidates of
\* both chunks
InitConcurrent ==
    /\ plugin = "ria_enumerator"
    /\ profile = "narrow"
    /\ wordlist = <<1, 2>>
    /\ hosted \in SUBSET {WordUrl(1, ""), WordUrl(2, ".gears"),
                          cross_domain_url, client_access_url}
    /\ flaky = {}
    /\ InitIdle

SpecConcurrent == InitConcurrent /\ [][NextRia]_vars

\* The console alone, on the empty knowledge base of a new session
InitConsole ==
    /\ plugin = "ria_enumerator"
    /\ profile = "narrow"
    /\ wordlist = <<1>>
    /\ hosted = {}
    /\ flaky = {}
    /\ InitIdle

NextConsole ==
    \/ CmdList
    \/ CmdAdd
    \/ CmdBack

SpecConsole == InitConsole /\ [][NextConsole]_vars

\* A scan session: either plugin is run while the operator uses the console
InitSession ==
    /\ profile = "session"
    /\ \/ /\ plugin = "ria_enumerator"
          /\ wordlist = <<1>>
          /\ hosted \in SUBSET {WordUrl(1, ""), cross_domain_url}
          /\ flaky = {}
       \/ /\ plugin = "urllist_txt"
          /\ wordlist = <<>>
          /\ hosted \in AtMostOne({urllist_url})
          /\ flaky = {}
    /\ InitIdle

NextSession ==
    \/ RiaCrawl
    \/ RiaCrawlReturn
    \/ UrlCrawl
    \/ UrlCrawlClassify
    \/ UrlCrawlExtract
    \/ UrlCrawlMap
    \/ UrlCrawlReturn
    \/ \E w \in Workers : TakeTask(w)
    \/ \E w \in Workers : SendAndCheckGet(w)
    \/ \E w \in Workers : SendAndCheckGears(w)
    \/ \E w \in Workers : SendAndCheckParse(w)
    \/ \E w \in Workers : SendAndCheckLoop(w)
    \/ \E w \in Workers : HttpGetAndParse(w)
    \/ CmdList
    \/ CmdAdd
    \/ CmdBack

SpecSession == InitSession /\ [][NextSession]_vars

\* Either plugin, any of the servers above
Init == InitRia \/ InitClassify \/ InitUrllist

Next ==
    \/ RiaCrawl
    \/ RiaCrawlReturn
    \/ UrlCrawl
    \/ UrlCrawlClassify
    \/ UrlCrawlExtract
    \/ UrlCrawlMap
    \/ UrlCrawlReturn
    \/ \E w \in Workers : TakeTask(w)
    \/ \E w \in Workers : SendAndCheckGet(w)
    \/ \E w \in Workers : SendAndCheckGears(w)
    \/ \E w \in Workers : SendAndCheckParse(w)
    \/ \E w \in Workers : SendAndCheckLoop(w)
    \/ \E w \in Workers : HttpGetAndParse(w)

Spec == Init /\ [][Next]_vars

-----------------------------------------------------------------------------
(* Vocabulary of the properties, written from their statements *)

\* A line of a list file, by its text once surrounding whitespace is ignored
IsBlank(line) == line.text = ""
IsComment(line) == line.text = "#" \/ line.text = "#c"
FailsToResolve(line) == line.text = "!"
Counts(line) == ~IsBlank(line) /\ ~IsComment(line)

NumFailing(body) ==
    Cardinality({k \in 1..Len(body) : Counts(body[k]) /\ FailsToResolve(body[k])})
NumResolving(body) ==
    Cardinality({k \in 1..Len(body) : Counts(body[k]) /\ ~FailsToResolve(body[k])})

\* The URLs of the lines that count and resolve, in body order
ResolvingUrls(body) ==
    LET keep == SelectSeq(body, LAMBDA l : Counts(l) /\ ~FailsToResolve(l))
    IN  [k \in 1..Len(keep) |-> FixedUrl(keep[k].text)]

UrllistBucket == Bucket(kb, TagKey("urllist.txt"))

\* The list-file classifier has just run on a present response
ListClassified == plugin = "urllist_txt" /\ crawl_pc = "classified"

\* The elements of a policy body the classifier is to report, and the value it
\* is to test, by file name
IsPolicyUrl(url) == url = FixedUrl("crossdomain.xml") \/ url = FixedUrl("clientaccesspolicy.xml")
RuleTag(url) == IF url = FixedUrl("crossdomain.xml") THEN "allow-access-from" ELSE "domain"
RuleValue(url, e) == IF url = FixedUrl("crossdomain.xml") THEN e.domain ELSE e.uri
Rules(url, body) == SelectSeq(body.elems, LAMBDA e : e.tag = RuleTag(url))

\* Worker w has finished a _send_and_check call on a present response
Finished(w) ==
    /\ workers[w].func = "_send_and_check"
    /\ workers[w].outcome = "returned"

\* What that call appended after the manifest classifier's part
PolicyPart(w) ==
    LET em == workers[w].emitted
        g == IF workers[w].resp.entries THEN 1 ELSE 0
    IN  SubSeq(em, g + 1, Len(em))

AnySiteText == "allows flash/silverlight access from any site"

-----------------------------------------------------------------------------
(* C1: a list-file body with 5 or more non-blank, non-comment lines that   *)
(* fail URL resolution is classified as not genuine: crawl appends no      *)
(* 'urllist.txt' finding for it.                                           *)
C1_FiveFailingNotGenuine ==
    ListClassified /\ NumFailing(http_response.body) >= 5
        => UrllistBucket = <<>>

C3_ClassifyNeverRaises ==
    \A w \in Workers :
        workers[w].func = "_send_and_check"
            => /\ workers[w].outcome # "UnboundLocalError"
               /\ (workers[w].pc \in {"parse", "loop"} /\ workers[w].resp.xml
                      => url_list_bound(workers[w].url))

(* C4: a fetch failure for one candidate does not stop the dispatch of the *)
(* others: once the pool has drained, every other candidate of the crawl   *)
(* has been fetched, and the failing one was fetched once.                 *)
C4_FetchFailureSkipsOnlyThatCandidate ==
    /\ plugin = "ria_enumerator"
    /\ hosted = {}
    /\ already_executed
    /\ crawl_pc = "idle"
    /\ taskqueue = <<>>
    /\ \A w \in Workers : workers[w].pc = "idle"
    => \A k \in 1..Len(handed[1]) : Fetched(handed[1][k]) = 1

(* C5: only the first crawl call does dispatch work: the run-once latch is *)
(* unset before the first call, set by it and never unset, and a later     *)
(* call issues no GET, hands nothing to the worker pool and appends no     *)
(* finding.                                                                *)
C5_OnlyFirstCallDispatches ==
    [][ /\ (calls = 0 => ~already_executed)
        /\ (calls' >= 1 => already_executed')
        /\ (already_executed => already_executed')
        /\ (calls >= 1 /\ calls' = calls + 1
              => UNCHANGED <<fetches, taskqueue, job, workers, kb, handed,
                             crawl_pc, http_response>>)
        /\ Len(handed') <= 1 ]_vars

C5_Witness ==
    /\ plugin = "ria_enumerator"
    /\ calls = 2
    /\ crawl_result = "w3afRunOnce"
    /\ kb # <<>>
    /\ Len(handed) = 1

(* C6: the Information finding for a matching element whose value is not   *)
(* the wildcard describes that origin: it does not say that access is      *)
(* allowed from any site, and two such findings for different values have  *)
(* different descriptions.                                                 *)
C6_InfoDescribesOrigin ==
    LET infos == Bucket(kb, TagKey("info"))
    IN  /\ \A k \in 1..Len(infos) :
              infos[k].name = "Cross-domain allow ACL"
                  => infos[k].desc.text # AnySiteText
        /\ \A w \in Workers :
              Finished(w) /\ IsPolicyUrl(workers[w].url) /\ workers[w].resp.xml
                  => LET rules == Rules(workers[w].url, workers[w].resp)
                         part == PolicyPart(w)
                     IN  \A j, k \in 1..Len(rules) :
                            /\ RuleValue(workers[w].url, rules[j]) # "*"
                            /\ RuleValue(workers[w].url, rules[k]) # "*"
                            /\ RuleValue(workers[w].url, rules[j])
                                  # RuleValue(workers[w].url, rules[k])
                            => part[j][2].desc # part[k][2].desc

(* C7: for crossdomain.xml or clientaccesspolicy.xml with a body that       *)
(* parses, the policy classifier appends exactly one finding per matching  *)
(* element, in order and unmerged: a Vuln of severity LOW in bucket 'vuln'  *)
(* for the value '*', an Info in bucket 'info' otherwise.                   *)
C7_OneFindingPerRule ==
    \A w \in Workers :
        Finished(w) /\ IsPolicyUrl(workers[w].url) /\ workers[w].resp.xml
            => LET rules == Rules(workers[w].url, workers[w].resp)
                   part == PolicyPart(w)
                   wild == {k \in 1..Len(rules) :
                               RuleValue(workers[w].url, rules[k]) = "*"}
               IN  /\ Len(part) = Len(rules)
                   /\ \A k \in 1..Len(rules) :
                         IF k \in wild
                         THEN /\ part[k][1] = TagKey("vuln")
                              /\ part[k][2].cls = "Vuln"
                              /\ part[k][2].severity = "LOW"
                         ELSE /\ part[k][1] = TagKey("info")
                              /\ part[k][2].cls = "Info"
                   /\ Len(Bucket(kb, TagKey("vuln"))) = Cardinality(wild)
                   /\ Len(Bucket(kb, TagKey("info"))) = Len(rules) - Cardinality(wild)
                   /\ \A k \in 1..Len(Bucket(kb, TagKey("vuln"))) :
                         Bucket(kb, TagKey("vuln"))[k].cls = "Vuln"
                   /\ \A k \in 1..Len(Bucket(kb, TagKey("info"))) :
                         Bucket(kb, TagKey("info"))[k].cls = "Info"

C7_Witness ==
    \E w \in Workers :
        /\ Finished(w)
        /\ workers[w].url = FixedUrl("crossdomain.xml")
        /\ workers[w].resp.xml
        /\ Len(Rules(workers[w].url, workers[w].resp)) = 2
        /\ Len(Bucket(kb, TagKey("vuln"))) = 1
        /\ Len(Bucket(kb, TagKey("info"))) = 1

(* C8: for a body that does not parse as XML, the policy classifier        *)
(* appends exactly one Info 'Invalid RIA settings file' in bucket 'info'   *)
(* when the body holds at least one marker substring, however many, and    *)
(* nothing when it holds none.                                             *)
C8_UnparsableBody ==
    \A w \in Workers :
        Finished(w) /\ ~workers[w].resp.xml
            => LET part == PolicyPart(w)
                   marked == workers[w].resp.markers \cap
                                {"allow-access-from", "cross-domain-policy",
                                 "cross-domain-access"}
               IN  /\ marked = {} => part = <<>> /\ Bucket(kb, TagKey("info")) = <<>>
                   /\ marked # {}
                        => /\ Len(part) = 1
                           /\ part[1][1] = TagKey("info")
                           /\ part[1][2].cls = "Info"
                           /\ part[1][2].name = "Invalid RIA settings file"
                           /\ Bucket(kb, TagKey("info")) = <<part[1][2]>>

C8_Witness ==
    \E w \in Workers :
        /\ Finished(w)
        /\ ~workers[w].resp.xml
        /\ Cardinality(workers[w].resp.markers) = 3
        /\ Len(Bucket(kb, TagKey("info"))) = 1

(* C9: with urllist.txt present, the list handed to the worker pool is the *)
(* URLs of the non-blank, non-comment lines that resolve, in body order,   *)
(* whether or not the body was classified as genuine; lines that do not    *)
(* resolve are dropped.                                                    *)
C9_HandedAreResolvingLines ==
    /\ plugin = "urllist_txt" /\ crawl_pc = "listed"
          => /\ Len(handed) = 1
             /\ handed[1] = ResolvingUrls(http_response.body)
             /\ Len(handed[1]) = NumResolving(http_response.body)
    /\ plugin = "urllist_txt" /\ crawl_pc = "map"
          /\ (\A w \in Workers : workers[w].func = "none")
          => Flatten([k \in 1..Len(taskqueue) |-> taskqueue[k].chunk]) = handed[1]

C9_Witness ==
    /\ plugin = "urllist_txt"
    /\ crawl_pc = "listed"
    /\ http_response.body = ExampleBody
    /\ Len(handed[1]) = 3

(* C10: a list-file body with fewer than 5 non-blank, non-comment lines    *)
(* that fail URL resolution is classified as genuine, whatever its length  *)
(* and however many lines resolve; the counter is 5 less the number of     *)
(* failing lines.                                                          *)
C10_FewerThanFiveFailingIsGenuine ==
    ListClassified
        => /\ is_urllist_counter(http_response.body, is_urllist_start)
                = 5 - NumFailing(http_response.body)
           /\ (NumFailing(http_response.body) < 5
                 => /\ is_urllist_txt(http_response.body)
                    /\ Len(UrllistBucket) = 1)

C10_Witness ==
    /\ ListClassified
    /\ NumFailing(http_response.body) = 4
    /\ NumResolving(http_response.body) = 2
    /\ Len(UrllistBucket) = 1

(* C11: a response the existence filter reports as absent is discarded:    *)
(* no classifier step runs on it and the call appends nothing, every       *)
(* finding in the store is about a present resource, and with urllist.txt  *)
(* absent nothing is classified, extracted, handed to the pool or fetched. *)
C11_AbsentIsDiscarded ==
    /\ \A w \in Workers :
          /\ workers[w].func = "_send_and_check"
          /\ workers[w].url # NoUrl
          /\ workers[w].url \notin hosted
          => /\ workers[w].pc \in {"call", "idle"}
             /\ workers[w].emitted = <<>>
             /\ workers[w].outcome \in {"absent", "GET raised"}
    /\ \A key \in DOMAIN kb :
          \A k \in 1..Len(kb[key]) : kb[key][k].url \in hosted
    /\ plugin = "urllist_txt" /\ urllist_url \notin hosted
          => /\ crawl_pc \in {"idle", "got"}
             /\ kb = <<>>
             /\ handed = <<>>
             /\ taskqueue = <<>>
             /\ job = NoJob
             /\ DOMAIN fetches \subseteq {urllist_url}

C11_Witness ==
    /\ plugin = "ria_enumerator"
    /\ kb # <<>>
    /\ \E w \in Workers :
          /\ workers[w].outcome = "absent"
          /\ workers[w].url \notin hosted
          /\ Fetched(workers[w].url) = 1

-----------------------------------------------------------------------------
(* Vocabulary of the console properties *)

\* The events of one kind of a logged command, in order
Evs(log, kind) == SelectSeq(log.events, LAMBDA e : e.ev = kind)

\* The messages a logged command gave the operator
Messages(log) == SelectSeq(log.events, LAMBDA e : e.ev \in {"console", "error"})

SaveRaised(log) ==
    \E k \in 1..Len(log.events) :
        log.events[k].ev = "_cmd_save" /\ log.events[k].text # "returned"
StoreRaised(log) ==
    \E k \in 1..Len(log.events) :
        log.events[k].ev = "store_in_kb" /\ log.events[k].text # "returned"
StoreReturned(log) ==
    \E k \in 1..Len(log.events) :
        log.events[k].ev = "store_in_kb" /\ log.events[k].text = "returned"

RecognizedTypes == {"vulns", "info", "shells"}
GetterOf(type) ==
    IF type = "vulns" THEN "get_all_vulns"
    ELSE IF type = "info" THEN "get_all_infos"
    ELSE "get_all_shells"

(* C12: a 'back' in a template editing session calls save once, attempts   *)
(* the store at most once and only after save returned; when save raises,  *)
(* the error is reported, the store is not attempted, no success or        *)
(* store-failure message is emitted and the findings store is unchanged.   *)
C12_StoreOnlyAfterSave ==
    [][ commands' = commands + 1 /\ cmd_log'.name = "back"
        => LET ev == cmd_log'.events
               saves == {k \in 1..Len(ev) : ev[k].ev = "_cmd_save"}
               stores == {k \in 1..Len(ev) : ev[k].ev = "store_in_kb"}
           IN  /\ Cardinality(saves) = 1
               /\ Cardinality(stores) <= 1
               /\ \A j \in stores :
                     \E i \in saves : i < j /\ ev[i].text = "returned"
               /\ SaveRaised(cmd_log')
                     => /\ stores = {}
                        /\ Len(Evs(cmd_log', "error")) = 1
                        /\ Evs(cmd_log', "console") = <<>>
                        /\ kb' = kb ]_vars

C12_Witness ==
    /\ cmd_log.name = "back"
    /\ SaveRaised(cmd_log)
    /\ Len(Messages(cmd_log)) = 1
    /\ kb = <<>>

(* C13: every 'back' in a template editing session returns _console.back,  *)
(* so that the console is at the parent menu, with exactly one message:    *)
(* the error when save raises, the failure message naming the              *)
(* vulnerability and the error when the store raises, the success message  *)
(* naming the vulnerability when the store succeeds.                       *)
C13_BackAlwaysLeaves ==
    cmd_log.name = "back"
        => LET msgs == Messages(cmd_log)
               name == get_vulnerability_name(cmd_log.params[1])
           IN  /\ cmd_result = "_console.back"
               /\ menu = "kb"
               /\ Len(msgs) = 1
               /\ SaveRaised(cmd_log) \/ StoreRaised(cmd_log) \/ StoreReturned(cmd_log)
               /\ SaveRaised(cmd_log) => msgs[1].ev = "error"
               /\ StoreRaised(cmd_log)
                     => /\ msgs[1].ev = "console"
                        /\ msgs[1].text = "Failed to store %s in the knowledge base because of a configuration error at: %s."
                        /\ msgs[1].a = name
                        /\ msgs[1].b = "Exception"
               /\ StoreReturned(cmd_log)
                     => /\ msgs[1].ev = "console"
                        /\ msgs[1].text = "Stored %s in the knowledge base."
                        /\ msgs[1].a = name

C13_Witness ==
    /\ cmd_log.name = "back"
    /\ StoreRaised(cmd_log)
    /\ cmd_result = "_console.back"
    /\ menu = "kb"

(* C14: list queries the store once per recognized type (vulns, info,      *)
(* shells) in parameter order, emits one 'Type <name> is unknown' message  *)
(* and no query per unrecognized name and goes on with the rest; without   *)
(* parameters it makes no query.                                           *)
C14_ListQueriesPerType ==
    cmd_log.name = "list"
        => LET steps == SelectSeq(cmd_log.events,
                                  LAMBDA e : e.ev = "kb" \/ (e.ev = "console" /\ cmd_log.params # <<>>))
               known == SelectSeq(cmd_log.params, LAMBDA p : p \in RecognizedTypes)
           IN  /\ Len(steps) = Len(cmd_log.params)
               /\ \A k \in 1..Len(cmd_log.params) :
                     IF cmd_log.params[k] \in RecognizedTypes
                     THEN /\ steps[k].ev = "kb"
                          /\ steps[k].text = GetterOf(cmd_log.params[k])
                     ELSE /\ steps[k].ev = "console"
                          /\ steps[k].text = "Type %s is unknown"
                          /\ steps[k].a = cmd_log.params[k]
               /\ Len(Evs(cmd_log, "kb")) = Len(known)
               /\ cmd_log.params = <<>>
                     => /\ Evs(cmd_log, "kb") = <<>>
                        /\ Len(Evs(cmd_log, "console")) = 1

C14_Witness ==
    /\ cmd_log.name = "list"
    /\ cmd_log.params = <<"bogus", "vulns">>
    /\ Len(Evs(cmd_log, "kb")) = 1

(* C15: add opens a template editing session exactly when it has one       *)
(* parameter and that is a name of the template catalog; an unknown name   *)
(* gives one 'Type <name> is unknown' message and no sub-session, no or    *)
(* several parameters give the usage hint, and add never changes the       *)
(* findings store.                                                         *)
C15_AddOpensSessionIffKnown ==
    [][ commands' = commands + 1 /\ cmd_log'.name = "add"
        => LET params == cmd_log'.params
               ok == Len(params) = 1 /\ params[1] \in get_template_names
               msgs == Messages(cmd_log')
           IN  /\ kb' = kb
               /\ ok <=> menu' \in get_template_names
               /\ ok => menu' = params[1] /\ cmd_result' = params[1] /\ msgs = <<>>
               /\ ~ok => menu' = "kb" /\ cmd_result' = "None" /\ Len(msgs) = 1
               /\ Len(params) = 1 /\ ~ok
                     => msgs[1].text = "Type %s is unknown" /\ msgs[1].a = params[1]
               /\ Len(params) = 0
                     => /\ msgs[1].text = "Parameter type is missing, see the help:"
                        /\ Len(Evs(cmd_log', "_cmd_help")) = 1
               /\ Len(params) > 1
                     => /\ msgs[1].text = "Only one parameter is accepted, see the help:"
                        /\ Len(Evs(cmd_log', "_cmd_help")) = 1 ]_vars

C15_Witness ==
    /\ cmd_log.name = "add"
    /\ cmd_log.params = <<"dav">>
    /\ menu = "dav"
    /\ cmd_result = "dav"
    /\ kb = <<>>

(* C16: the findings store is append-only: in every step of a crawl, of a  *)
(* list or add command and of a template 'back', each bucket keeps its     *)
(* content as a prefix of its new content, and a list command leaves the   *)
(* store as it is.                                                         *)
C16_StoreIsAppendOnly ==
    [][ /\ \A key \in DOMAIN kb :
              /\ key \in DOMAIN kb'
              /\ Len(kb[key]) <= Len(kb'[key])
              /\ SubSeq(kb'[key], 1, Len(kb[key])) = kb[key]
        /\ (commands' = commands + 1 /\ cmd_log'.name = "list" => kb' = kb) ]_vars

C16_Witness ==
    /\ cmd_log.name = "list"
    /\ Len(Bucket(kb, TagKey("info"))) = 3
    /\ Bucket(kb, TagKey("dav")) # <<>>
    /\ crawl_pc = "idle"
    /\ calls >= 1

-----------------------------------------------------------------------------
(* Vocabulary of the concurrency property *)

\* What the two classifiers emit for a present response, in order: the manifest
\* classifier's finding, then the policy classifier's, which for a body that
\* parses are one per selected element when the file name selects any
Classified(url, body) ==
    analyze_gears_manifest(url, body)
    \o (IF ~body.xml THEN analyze_invalid_xml(url, body)
        ELSE IF ~url_list_bound(url) THEN <<>>
        ELSE [k \in 1..Len(url_list(url, body)) |->
                 analyze_element(url, url_list(url, body)[k])])

\* The findings of a sequence of <<key, finding>> pairs that go to one bucket
ForBucket(pairs, key) ==
    LET sel == SelectSeq(pairs, LAMBDA p : p[1] = key)
    IN  [k \in 1..Len(sel) |-> sel[k][2]]

\* Whether b is an interleaving of the sequences seqs[u]: all of their
\* elements, each sequence in its own order
RECURSIVE IsMerge(_, _)
IsMerge(b, seqs) ==
    IF b = <<>> THEN \A u \in DOMAIN seqs : seqs[u] = <<>>
    ELSE \E u \in DOMAIN seqs :
            /\ seqs[u] # <<>>
            /\ Head(seqs[u]) = Head(b)
            /\ IsMerge(Tail(b), [seqs EXCEPT ![u] = Tail(@)])

\* The crawl is over and the pool has drained
DispatchCompleted ==
    /\ already_executed
    /\ crawl_pc = "idle"
    /\ taskqueue = <<>>
    /\ \A w \in Workers : workers[w].pc = "idle"

\* The present responses of the crawl: the hosted URLs that were fetched
PresentUrls == {u \in hosted : Fetched(u) >= 1}

C18_ManifestMarkerOnly ==
    /\ \A w \in Workers :
          /\ workers[w].func = "_send_and_check"
          /\ workers[w].url \in hosted
          /\ workers[w].pc # "gears"
          => LET g == SelectSeq(workers[w].emitted,
                                LAMBDA p : p[2].name = "Gears manifest resource")
                 url == workers[w].url
             IN  IF workers[w].resp.entries
                 THEN /\ Len(g) = 1
                      /\ workers[w].emitted[1] = g[1]
                      /\ g[1][1] = UrlKey(url)
                      /\ g[1][2].cls = "Info"
                      /\ g[1][2].severity = "INFORMATION"
                      /\ g[1][2].url = url
                      /\ Bucket(kb, UrlKey(url)) = <<g[1][2]>>
                 ELSE /\ g = <<>>
                      /\ Bucket(kb, UrlKey(url)) = <<>>
    /\ \A key \in DOMAIN kb :
          key.tag = "url"
              => \A k \in 1..Len(kb[key]) :
                    /\ kb[key][k].name = "Gears manifest resource"
                    /\ kb[key][k].url = key.url

C18_Witness ==
    \E w \in Workers :
        /\ Finished(w)
        /\ workers[w].url \in hosted
        /\ ~workers[w].resp.xml
        /\ workers[w].resp.entries
        /\ workers[w].resp.markers = {}
        /\ Len(Bucket(kb, UrlKey(workers[w].url))) = 1

(* C19: over the crawl calls of one urllist_txt instance at most one       *)
(* finding is in bucket 'urllist.txt'; it is appended by the first call's  *)
(* classification of a present response, exactly when the body is          *)
(* classified as genuine, before any follow-up candidate is handed to the  *)
(* pool or fetched, and by nothing else.                                   *)
C19_OneListFinding ==
    [][ /\ Len(UrllistBucket') <= 1
        /\ (crawl_pc' \in {"classified", "listed"}
              => /\ calls' = 1
                 /\ ~http_response'.absent
                 /\ (Len(UrllistBucket') = 1 <=> is_urllist_txt(http_response'.body)))
        /\ (handed' = <<>> /\ crawl_pc' \in {"idle", "got"} => UrllistBucket' = <<>>)
        /\ (handed' = <<>>
              => /\ taskqueue' = <<>>
                 /\ job' = NoJob
                 /\ DOMAIN fetches' \subseteq {urllist_url})
        /\ (UrllistBucket' # UrllistBucket
              => crawl_pc = "got" /\ handed = <<>> /\ calls = 1) ]_vars

C19_Witness ==
    /\ plugin = "urllist_txt"
    /\ calls = 2
    /\ crawl_result = "w3afRunOnce"
    /\ Len(UrllistBucket) = 1
    /\ Len(handed) = 1
    /\ Fetched(FixedUrl("/a")) = 1
    /\ Fetched(urllist_url) = 1

(* C20: for every present response _send_and_check applies the manifest   *)
(* classifier and then the policy classifier, whatever the file name: the  *)
(* call's appends are the manifest finding, if any, followed by the policy *)
(* classifier's; a body that does not parse and holds both kinds of marker *)
(* gives two Infos.                                                        *)
C20_BothClassifiersAlways ==
    \A w \in Workers :
        workers[w].func = "_send_and_check" /\ workers[w].url \in hosted
            => LET em == workers[w].emitted
                   all == Classified(workers[w].url, workers[w].resp)
               IN  /\ Len(em) <= Len(all)
                   /\ em = SubSeq(all, 1, Len(em))
                   /\ workers[w].pc \in {"call", "idle"} => em = all
                   /\ workers[w].pc \in {"parse", "loop"} /\ workers[w].resp.entries
                         => /\ Len(em) >= 1
                            /\ em[1][2].name = "Gears manifest resource"
                   /\ Finished(w) /\ ~workers[w].resp.xml /\ workers[w].resp.entries
                         /\ workers[w].resp.markers # {}
                         => /\ Len(em) = 2
                            /\ em[1][2].name = "Gears manifest resource"
                            /\ em[2][2].name = "Invalid RIA settings file"
                            /\ em[1][2].cls = "Info" /\ em[2][2].cls = "Info"

C20_Witness ==
    \E w \in Workers :
        /\ Finished(w)
        /\ workers[w].url = WordUrl(1, ".php")
        /\ workers[w].url \in hosted
        /\ ~workers[w].resp.xml
        /\ workers[w].resp.entries
        /\ workers[w].resp.markers = {"cross-domain-policy"}
        /\ Len(workers[w].emitted) = 2
        /\ Len(Bucket(kb, TagKey("info"))) = 1

=============================================================================
